---- MODULE Spec2Model ----
(***************************************************************************)
(* A model of iridm_dm_app.py, the IRIDM disaster-management assistant.    *)
(*                                                                         *)
(* Three parts of the program are modelled, each with a specification of   *)
(* its own over the module's variables:                                    *)
(*   Spec         the incident log: load_existing_log and log_event, run   *)
(*                by two Streamlit sessions that share incident_log.csv;   *)
(*   NearestSpec  nearest_fire_station applied to bounded inputs;          *)
(*   WizardSpec   the sidebar wizard of main().                            *)
(***************************************************************************)
EXTENDS Integers, Sequences, FiniteSets

VARIABLES
    log_in_state,   \* [session -> BOOLEAN]: "log" in st.session_state
    session_log,    \* [session -> Seq(entry)]: st.session_state.log
    file_state,     \* LOG_FILE: "absent", "zero_bytes" or "csv" (header + rows)
    file_rows,      \* the data rows of LOG_FILE when it is "csv"
    clock,          \* datetime.now(), in ticks of 1/TicksPerSecond second
    pc,             \* [session -> "idle" | "wizard"]: where the session's run of main() is
    load_called,    \* [session -> BOOLEAN]: load_existing_log has been called before
    seeded,         \* [session -> BOOLEAN]: the session's log was read from LOG_FILE
    appends,        \* [session -> Nat]: calls of log_event made by the session
    write_result,   \* [session -> "none" | "ok" | "error"]: its last to_csv
    write_errors,   \* [session -> Nat]: to_csv calls of the session that raised
    nf_point,       \* the (lat, lon) nearest_fire_station is called with
    stations_df,    \* the caller's station frame
    nf_outcome,     \* "pending", "returned", or the exception raised
    nf_row,         \* the row nearest_fire_station returned
    wizard          \* the sidebar widgets' values, as main() reads them

logVars == <<log_in_state, session_log, file_state, file_rows, clock, pc,
             load_called, seeded, appends, write_result, write_errors>>

nearestVars == <<nf_point, stations_df, nf_outcome, nf_row>>

vars == <<logVars, nearestVars, wizard>>

(***************************************************************************)
(* Bounds of the model.                                                    *)
(***************************************************************************)
MaxAppends == 2
MaxClock == 2
MaxStations == 3

Sessions == {1, 2}

(***************************************************************************)
(* The incident log: constants and pure helpers.                           *)
(***************************************************************************)
TicksPerSecond == 2

\* float('nan'), the value read_csv gives an empty cell.
NaN == "float(nan)"

\* The tokens read_csv reads as missing, among them the empty cell.
NaValues == {"", "NA", "N/A", "NaN", "nan", "null", "NULL", "n/a", "<NA>", "#N/A"}

\* The names main() passes as location: a CAMPUS_LOCATIONS name, or "GPS".
LocationNames == {"Admin Block", "Hostel"}
LogLocations == LocationNames \cup {"GPS"}

\* datetime.now().isoformat(timespec="seconds"): the clock cut to whole seconds.
IsoSeconds(c) == c \div TicksPerSecond

\* The dict log_event builds; notes has its default, "".
Entry(ts, status, location, notes) ==
    [timestamp |-> ts, status |-> status, location |-> location, notes |-> notes]

\* to_csv writes a missing value as the empty cell (na_rep = "").
ToCsvCell(v) == IF v = NaN THEN "" ELSE v

\* read_csv turns a cell that is one of its NA tokens into NaN.
FromCsvCell(c) == IF c \in NaValues THEN NaN ELSE c

\* A timestamp cell is ISO text: it is never an NA token, it is written
\* unquoted and read back as the same text.
ToCsvRow(e) ==
    [timestamp |-> e.timestamp, status |-> ToCsvCell(e.status),
     location |-> ToCsvCell(e.location), notes |-> ToCsvCell(e.notes)]

FromCsvRow(r) ==
    [timestamp |-> r.timestamp, status |-> FromCsvCell(r.status),
     location |-> FromCsvCell(r.location), notes |-> FromCsvCell(r.notes)]

\* pd.DataFrame(log).to_csv(LOG_FILE, index=False): one row per entry, in order.
ToCsv(log) == [i \in 1..Len(log) |-> ToCsvRow(log[i])]

\* pd.read_csv(LOG_FILE).to_dict("records")
ReadCsv(rows) == [i \in 1..Len(rows) |-> FromCsvRow(rows[i])]

\* st.session_state.log.append(entry)
PrependEntry(log, e) == <<e>> \o log
AppendEntry(log, e) == Append(log, e)

\* The rows to_csv leaves in LOG_FILE: the whole session log, replacing what
\* the file held (mode "w").
AppendedRows(old_rows, log) == old_rows \o ToCsv(<<log[Len(log)]>>)
PersistedRows(old_rows, log) == ToCsv(log)

\* The condition of load_existing_log.
LoadGuardFileOnly(fstate, has_log) == fstate # "absent"
LoadGuard(fstate, has_log) == fstate # "absent" /\ ~has_log

\* to_csv raising at line 113 does not undo the append of line 111.
RolledBack(before, after) == before
AfterRaise(before, after) == after

IsPrefix(a, b) == Len(a) <= Len(b) /\ \A i \in 1..Len(a) : a[i] = b[i]

\* The session's sequence, empty when "log" is not in st.session_state
\* (st.session_state.get("log", [])).
Current(s) == IF log_in_state[s] THEN session_log[s] ELSE <<>>

TotalAppends == appends[1] + appends[2]

(***************************************************************************)
(* The incident log: initial state and actions.                            *)
(***************************************************************************)
InitLog ==
    /\ log_in_state = [s \in Sessions |-> FALSE]
    /\ session_log = [s \in Sessions |-> <<>>]
    /\ file_state = "absent"
    /\ file_rows = <<>>
    /\ clock = 0
    /\ pc = [s \in Sessions |-> "idle"]
    /\ load_called = [s \in Sessions |-> FALSE]
    /\ seeded = [s \in Sessions |-> FALSE]
    /\ appends = [s \in Sessions |-> 0]
    /\ write_result = [s \in Sessions |-> "none"]
    /\ write_errors = [s \in Sessions |-> 0]

\* A run of main() starts: load_existing_log() at line 206.
MainLoad(s) ==
    /\ pc[s] = "idle"
    /\ load_called' = [load_called EXCEPT ![s] = TRUE]
    /\ \/ \* the file is there and the session has no log: read it
          /\ LoadGuard(file_state, log_in_state[s])
          /\ file_state = "csv"
          /\ session_log' = [session_log EXCEPT ![s] = ReadCsv(file_rows)]
          /\ log_in_state' = [log_in_state EXCEPT ![s] = TRUE]
          /\ seeded' = [seeded EXCEPT ![s] = TRUE]
          /\ pc' = [pc EXCEPT ![s] = "wizard"]
       \/ \* the file is there but empty: read_csv raises, the run ends
          /\ LoadGuard(file_state, log_in_state[s])
          /\ file_state = "zero_bytes"
          /\ UNCHANGED <<session_log, log_in_state, seeded, pc>>
       \/ \* nothing to load
          /\ ~LoadGuard(file_state, log_in_state[s])
          /\ pc' = [pc EXCEPT ![s] = "wizard"]
          /\ UNCHANGED <<session_log, log_in_state, seeded>>
    /\ UNCHANGED <<file_state, file_rows, clock, appends, write_result, write_errors>>
    /\ UNCHANGED <<nearestVars, wizard>>

\* log_event(status, location), called by a button of the Fire workflow.
LogEvent(s, status, location) ==
    /\ pc[s] = "wizard"
    /\ TotalAppends < MaxAppends
    /\ LET entry == Entry(IsoSeconds(clock), status, location, "")
           newlog == AppendEntry(Current(s), entry)
       IN  \/ \* to_csv succeeds
              /\ session_log' = [session_log EXCEPT ![s] = newlog]
              /\ file_state' = "csv"
              /\ file_rows' = PersistedRows(file_rows, newlog)
              /\ write_result' = [write_result EXCEPT ![s] = "ok"]
              /\ UNCHANGED write_errors
           \/ \* to_csv raises before opening the file: the file is as it was
              /\ session_log' = [session_log EXCEPT ![s] = AfterRaise(Current(s), newlog)]
              /\ UNCHANGED <<file_state, file_rows>>
              /\ write_result' = [write_result EXCEPT ![s] = "error"]
              /\ write_errors' = [write_errors EXCEPT ![s] = @ + 1]
           \/ \* to_csv raises after opening the file: the file is cut short
              /\ session_log' = [session_log EXCEPT ![s] = AfterRaise(Current(s), newlog)]
              /\ \/ /\ file_state' = "zero_bytes"
                    /\ file_rows' = <<>>
                 \/ \E k \in 0..(Len(newlog) - 1) :
                       /\ file_state' = "csv"
                       /\ file_rows' = SubSeq(PersistedRows(file_rows, newlog), 1, k)
              /\ write_result' = [write_result EXCEPT ![s] = "error"]
              /\ write_errors' = [write_errors EXCEPT ![s] = @ + 1]
    /\ log_in_state' = [log_in_state EXCEPT ![s] = TRUE]
    /\ appends' = [appends EXCEPT ![s] = @ + 1]
    /\ pc' = [pc EXCEPT ![s] = "idle"]
    /\ UNCHANGED <<clock, load_called, seeded, nearestVars, wizard>>

\* The button "Dial Fire Station & Log Call" (lines 299-301).
DialAndLogCall(s) ==
    \E location \in LogLocations : LogEvent(s, "CALL_PLACED", location)

\* The button "Firefighters Arrived - Mark Resolved" (lines 303-305).
MarkResolved(s) ==
    \E location \in LogLocations : LogEvent(s, "RESOLVED", location)

\* The run of main() ends with no button pressed.
MainEnd(s) ==
    /\ pc[s] = "wizard"
    /\ pc' = [pc EXCEPT ![s] = "idle"]
    /\ UNCHANGED <<log_in_state, session_log, file_state, file_rows, clock,
                   load_called, seeded, appends, write_result, write_errors>>
    /\ UNCHANGED <<nearestVars, wizard>>

\* The wall clock advances.
Tick ==
    /\ clock < MaxClock
    /\ clock' = clock + 1
    /\ UNCHANGED <<log_in_state, session_log, file_state, file_rows, pc,
                   load_called, seeded, appends, write_result, write_errors>>
    /\ UNCHANGED <<nearestVars, wizard>>

(***************************************************************************)
(* The nearest-station resolver.  Coordinates are in units of 1e-4 degree  *)
(* from (12.9000 N, 77.4000 E); distances in metres, distance_km in units  *)
(* of 0.01 km.                                                             *)
(***************************************************************************)
MetresPerUnit == 11

IRIDM_LAT == 76
IRIDM_LON == 329

Campus(name, lat, lon) == [name |-> name, latitude |-> lat, longitude |-> lon]

CAMPUS_LOCATIONS == <<Campus("Admin Block", 79, 332), Campus("Hostel", 74, 326)>>

Station(name, lat, lon, phone) ==
    [name |-> name, latitude |-> lat, longitude |-> lon, phone |-> phone]

DEFAULT_FIRE_STATIONS ==
    <<Station("Kengeri Fire Station", 133, 488, "+918022851049"),
      Station("Ram Nagar Fire Station", 225, 1051, "+918022917567")>>

\* Rows a fire_stations.csv may add: one at the coordinates of a default
\* station, one a few metres from it.
OverrideStations ==
    {Station("Kengeri Satellite Unit", 133, 488, "+918000000001"),
     Station("Rajarajeshwari Nagar Fire Station", 135, 487, "+918000000002")}

StationPool == {DEFAULT_FIRE_STATIONS[i] : i \in 1..Len(DEFAULT_FIRE_STATIONS)}
                   \cup OverrideStations

\* The points main() resolves: a campus location, or the campus centre for GPS.
IncidentPoints ==
    {<<CAMPUS_LOCATIONS[i].latitude, CAMPUS_LOCATIONS[i].longitude>> :
        i \in 1..Len(CAMPUS_LOCATIONS)} \cup {<<IRIDM_LAT, IRIDM_LON>>}

\* A DataFrame of stations: its rows in order, each with its index label;
\* distance_km is 0 until the column is set.
Frame(stations) ==
    [has_distance |-> FALSE,
     rows |-> [i \in 1..Len(stations) |->
                 [label |-> i - 1, name |-> stations[i].name,
                  latitude |-> stations[i].latitude,
                  longitude |-> stations[i].longitude,
                  phone |-> stations[i].phone, distance_km |-> 0]]]

\* load_fire_station_df(): fire_stations.csv when it exists, else the defaults.
load_fire_station_df(csv_exists, csv_stations) ==
    IF csv_exists THEN Frame(csv_stations) ELSE Frame(DEFAULT_FIRE_STATIONS)

AbsInt(x) == IF x < 0 THEN -x ELSE x

RECURSIVE ISqrtIn(_, _, _)
ISqrtIn(n, lo, hi) ==
    IF lo = hi THEN lo
    ELSE LET mid == (lo + hi + 1) \div 2
         IN  IF mid * mid <= n THEN ISqrtIn(n, mid, hi) ELSE ISqrtIn(n, lo, mid - 1)

ISqrt(n) == ISqrtIn(n, 0, 46340)

\* geodesic(p1, p2), in metres: the distance on the plane of the grid.
GeodesicMetres(p1, p2) ==
    LET dlat == AbsInt(p1[1] - p2[1]) * MetresPerUnit
        dlon == AbsInt(p1[2] - p2[2]) * MetresPerUnit
    IN  ISqrt(dlat * dlat + dlon * dlon)

\* round(km, 2): to the nearest 0.01 km, a half to the even neighbour.
Round2(metres) ==
    LET q == metres \div 10
        r == metres % 10
    IN  IF r > 5 \/ (r = 5 /\ q % 2 = 1) THEN q + 1 ELSE q

haversine_km(p1, p2) == Round2(GeodesicMetres(p1, p2))

\* stations_df["distance_km"] = stations_df.apply(..., axis=1)
WithDistance(lat, lon, df) ==
    [has_distance |-> TRUE,
     rows |-> [i \in 1..Len(df.rows) |->
                 [df.rows[i] EXCEPT !.distance_km =
                     haversine_km(<<lat, lon>>, <<df.rows[i].latitude, df.rows[i].longitude>>)]]]

RowOrders(n) ==
    {f \in [1..n -> 1..n] : \A i, j \in 1..n : f[i] = f[j] => i = j}

\* The order sort_values asks of two neighbouring rows.
Descending(a, b) == a.distance_km >= b.distance_km
Ascending(a, b) == a.distance_km <= b.distance_km

\* sort_values("distance_km"): the default kind, quicksort, is not stable, so
\* rows of equal distance_km may end in any order.
SortValues(df) ==
    {[has_distance |-> df.has_distance,
      rows |-> [i \in 1..Len(df.rows) |-> df.rows[f[i]]]] :
        f \in {g \in RowOrders(Len(df.rows)) :
                 \A i \in 1..(Len(df.rows) - 1) :
                    Ascending(df.rows[g[i]], df.rows[g[i + 1]])}}

\* stations_df.copy(): the function works on a frame of its own, the caller's
\* frame is not the one it changes.
Aliased(callers, local) == local
CallerFrame(callers, local) == callers

\* What the call raises on a frame with no rows: apply gives back a frame, not
\* a column, and either the assignment of line 94 raises ValueError or
\* iloc[0] of line 98 raises IndexError, by pandas version.
EmptyFrameErrors == {"ValueError", "IndexError"}

NoRow ==
    [label |-> -1, name |-> "", latitude |-> 0, longitude |-> 0, phone |-> "",
     distance_km |-> 0]

StationSeqs(n) == UNION {[1..k -> StationPool] : k \in 0..n}

NearestIdle ==
    /\ nf_point = <<IRIDM_LAT, IRIDM_LON>>
    /\ stations_df = load_fire_station_df(FALSE, <<>>)
    /\ nf_outcome = "pending"
    /\ nf_row = NoRow

InitNearest ==
    /\ nf_point \in IncidentPoints
    /\ \E csv_exists \in BOOLEAN : \E csv \in StationSeqs(MaxStations) :
          stations_df = load_fire_station_df(csv_exists, csv)
    /\ nf_outcome = "pending"
    /\ nf_row = NoRow

\* nearest_fire_station(lat, lon, stations_df)
NearestFireStation ==
    /\ nf_outcome = "pending"
    /\ \/ /\ Len(stations_df.rows) = 0
          /\ nf_outcome' \in EmptyFrameErrors
          /\ UNCHANGED <<nf_row, stations_df>>
       \/ /\ Len(stations_df.rows) > 0
          /\ \E sorted \in SortValues(WithDistance(nf_point[1], nf_point[2], stations_df)) :
                /\ nf_row' = sorted.rows[1]
                /\ stations_df' = CallerFrame(stations_df, sorted)
          /\ nf_outcome' = "returned"
    /\ UNCHANGED <<nf_point, logVars, wizard>>

NextNearest == NearestFireStation

(***************************************************************************)
(* The sidebar wizard of main().                                           *)
(***************************************************************************)
\* index=None: nothing chosen yet.
None == "None"

\* The options of "Diaster Preparedness" and of "Diaster Mitigation".
PreparednessOptions ==
    {"Training ", "Drills", "DM Emergency Response Team", "Evacuation Plans"}

\* The second option of "Risk Assessment" as line 238 writes it, with the
\* non-breaking hyphen U+2011, and the text line 249 compares it with, with
\* the ASCII hyphen-minus.
ManMadeOption == "Man{U+2011}made"
ManMadeLiteral == "Man-made"

RiskOptions == {"Natural", ManMadeOption, "Technical Faliure"}

NatureOptions == {"Flood", "Other"}
ManMadeTypeOptions ==
    {"Fire", "Train Accident", "Infrastructure Collapse", "Machinery BreakDown",
     "Medical Emergency", "Other"}
TechnicalFailureOptions ==
    {"IT system BreakDowm", "Power Failure",
     "Transportation Accident involving trainee and staff"}

\* The options of the subtype selectbox main() shows for disaster_type
\* (lines 241-261); none when no category is chosen.
SubtypeOptions(disaster_type) ==
    IF disaster_type = None THEN {}
    ELSE IF disaster_type = "Natural" THEN NatureOptions
    ELSE IF disaster_type = ManMadeLiteral THEN ManMadeTypeOptions
    ELSE TechnicalFailureOptions

\* subtype == "Fire" (line 263): the Fire incident details are shown.
FireDetailsShown(wz) == wz.disaster_type # None /\ wz.subtype = "Fire"

\* The else branch of line 276: the nearest station is resolved and the two
\* log buttons are shown.
FireWorkflowActive(wz) ==
    /\ FireDetailsShown(wz)
    /\ ~(wz.selected_loc_name = None /\ ~wz.gps_option)

\* The input widgets a run of main() shows, by label.
RenderedInputs(wz) ==
    {"Diaster Preparedness", "Diaster Mitigation", "Risk Assessment"}
        \cup (IF wz.disaster_type # None THEN {"Specify"} ELSE {})
        \cup (IF FireDetailsShown(wz)
              THEN {"Where is the fire?", "Use my GPS location instead"} ELSE {})

\* What the user can set a shown widget to.
WidgetOptions(wz, w) ==
    CASE w = "Diaster Preparedness" -> PreparednessOptions
      [] w = "Diaster Mitigation" -> PreparednessOptions
      [] w = "Risk Assessment" -> RiskOptions
      [] w = "Specify" -> SubtypeOptions(wz.disaster_type)
      [] w = "Where is the fire?" -> LocationNames
      [] w = "Use my GPS location instead" -> BOOLEAN

\* The widget values the next run of main() reads after the user sets widget
\* w to v: a widget that is no longer shown, or a selectbox that is replaced
\* by another, starts again from its default.
SetWidget(wz, w, v) ==
    LET set == CASE w = "Diaster Preparedness" -> [wz EXCEPT !.disaster_prep = v]
                 [] w = "Diaster Mitigation" -> [wz EXCEPT !.disaster_mitig = v]
                 [] w = "Risk Assessment" ->
                        [wz EXCEPT !.disaster_type = v,
                                   !.subtype = IF v = wz.disaster_type THEN @ ELSE None]
                 [] w = "Specify" -> [wz EXCEPT !.subtype = v]
                 [] w = "Where is the fire?" -> [wz EXCEPT !.selected_loc_name = v]
                 [] w = "Use my GPS location instead" -> [wz EXCEPT !.gps_option = v]
    IN  IF FireDetailsShown(set) THEN set
        ELSE [set EXCEPT !.selected_loc_name = None, !.gps_option = FALSE]

InitWizard ==
    wizard = [disaster_prep |-> None, disaster_mitig |-> None,
              disaster_type |-> None, subtype |-> None,
              selected_loc_name |-> None, gps_option |-> FALSE]

\* The user sets one of the widgets shown and main() runs again.
UserInput ==
    /\ \E w \in RenderedInputs(wizard) : \E v \in WidgetOptions(wizard, w) :
          wizard' = SetWidget(wizard, w, v)
    /\ UNCHANGED <<logVars, nearestVars>>

NextWizard == UserInput

(***************************************************************************)
(* The specifications.                                                     *)
(***************************************************************************)
Init == InitLog /\ NearestIdle /\ InitWizard


Next ==
    \/ \E s \in Sessions : MainLoad(s)
    \/ \E s \in Sessions : DialAndLogCall(s)
    \/ \E s \in Sessions : MarkResolved(s)
    \/ \E s \in Sessions : MainEnd(s)
    \/ Tick

Spec == Init /\ [][Next]_vars

NearestInit == InitLog /\ InitNearest /\ InitWizard

NearestSpec == NearestInit /\ [][NextNearest]_vars

WizardInit == InitLog /\ NearestIdle /\ InitWizard

WizardSpec == WizardInit /\ [][NextWizard]_vars

(***************************************************************************)
(* Properties of the incident log (checked under Spec).                    *)
(***************************************************************************)
\* A step in which session s completes a call of log_event.
LogEventStep(s) == appends'[s] = appends[s] + 1

\* C1: Log round-trip. Whenever a session with no log loads a file that
\* holds what a session w wrote, w having started from absent storage, the
\* loading session obtains exactly w's entries: same number, same order,
\* every field (timestamp, status, location, notes) equal.
C1_LogRoundTrip ==
    [][\A r \in Sessions : \A w \in Sessions \ {r} :
          (/\ ~log_in_state[r] /\ log_in_state'[r]
           /\ log_in_state[w] /\ ~seeded[w] /\ Len(session_log[w]) >= 1
           /\ file_state = "csv" /\ file_rows = ToCsv(session_log[w]))
          => session_log'[r] = session_log[w]]_vars

\* C2: Append mirrors the whole session. Right after a log_event of session
\* s whose write succeeded, the log file holds exactly the rows of s's whole
\* in-memory sequence, in order, whatever another session wrote before.
C2_AppendMirrorsSession ==
    [][\A s \in Sessions :
          (LogEventStep(s) /\ write_result'[s] = "ok")
          => /\ file_state' = "csv"
             /\ Len(file_rows') = Len(session_log'[s])
             /\ file_rows' = ToCsv(session_log'[s])]_vars

\* Both sessions have appended, the file holds the sequence of session 2 and
\* not that of session 1: the last writer won.
C2_Witness ==
    /\ appends[1] >= 1 /\ appends[2] >= 1
    /\ write_result[1] = "ok" /\ write_result[2] = "ok"
    /\ file_state = "csv"
    /\ file_rows = ToCsv(session_log[2])
    /\ file_rows # ToCsv(session_log[1])

\* C3: Idempotence of load. Once load_existing_log has been called in a
\* session, a later call leaves the session's sequence as it is (a session
\* that is idle can only call load_existing_log next).
C3_LoadIdempotent ==
    [][\A s \in Sessions :
          (pc[s] = "idle" /\ load_called[s])
          => /\ log_in_state'[s] = log_in_state[s]
             /\ session_log'[s] = session_log[s]]_vars

\* C4: The session log is append-only. Once a session has a sequence, every
\* step leaves it a prefix of the new one, and each log_event adds exactly
\* one entry at the end.
C4_AppendOnly ==
    [][\A s \in Sessions :
          /\ log_in_state[s]
             => log_in_state'[s] /\ IsPrefix(session_log[s], session_log'[s])
          /\ LogEventStep(s)
             => /\ log_in_state'[s]
                /\ Len(session_log'[s]) = Len(Current(s)) + 1
                /\ IsPrefix(Current(s), session_log'[s])]_vars

\* Session 2 read its log from the file, appended to it, and the file no
\* longer holds that sequence.
C4_Witness ==
    /\ seeded[2] /\ appends[2] >= 1 /\ Len(session_log[2]) >= 2
    /\ ~(file_state = "csv" /\ file_rows = ToCsv(session_log[2]))

\* C5: Persistence failure is self-healing. A log_event whose write fails
\* still adds its entry at the end of the session's sequence, and the first
\* log_event after it whose write succeeds leaves in the file the whole
\* sequence, the entry of the failed write included.
C5_SelfHealing ==
    [][\A s \in Sessions :
          /\ (LogEventStep(s) /\ write_result'[s] = "error")
             => /\ log_in_state'[s]
                /\ Len(session_log'[s]) = Len(Current(s)) + 1
                /\ SubSeq(session_log'[s], 1, Len(Current(s))) = Current(s)
                /\ session_log'[s][Len(session_log'[s])].notes = ""
          /\ (LogEventStep(s) /\ write_result[s] = "error" /\ write_result'[s] = "ok")
             => /\ file_state' = "csv"
                /\ file_rows' = ToCsv(Append(session_log[s],
                                    session_log'[s][Len(session_log'[s])]))]_vars

\* A write of session 1 failed, a later one succeeded, and the file holds its
\* whole sequence of at least two entries.
C5_Witness ==
    /\ write_errors[1] >= 1 /\ write_result[1] = "ok"
    /\ Len(session_log[1]) >= 2 /\ Len(session_log[1]) = appends[1]
    /\ file_state = "csv" /\ file_rows = ToCsv(session_log[1])

\* C9 as stated: in a session that started from absent storage, successive
\* entries have distinct timestamps, and timestamps never decrease.
C9_DistinctTimestamps ==
    \A s \in Sessions :
        ~seeded[s] =>
            \A i \in 1..(Len(session_log[s]) - 1) :
                /\ session_log[s][i].timestamp # session_log[s][i + 1].timestamp
                /\ session_log[s][i].timestamp <= session_log[s][i + 1].timestamp

\* C9: Timestamp ordering, as amended. In a session that started from absent
\* storage, timestamps are non-decreasing in insertion order over the whole
\* sequence.
C9_TimestampsNonDecreasing ==
    \A s \in Sessions :
        ~seeded[s] =>
            \A i, j \in 1..Len(session_log[s]) :
                i < j => session_log[s][i].timestamp <= session_log[s][j].timestamp

\* CALL_PLACED then RESOLVED at "Admin Block" in one session, in the same
\* second: two entries with one timestamp.
C9_Witness ==
    /\ ~seeded[1] /\ Len(session_log[1]) = 2
    /\ session_log[1][1].status = "CALL_PLACED"
    /\ session_log[1][2].status = "RESOLVED"
    /\ session_log[1][1].location = "Admin Block"
    /\ session_log[1][2].location = "Admin Block"
    /\ session_log[1][1].timestamp = session_log[1][2].timestamp

(***************************************************************************)
(* Properties of nearest_fire_station (checked under NearestSpec).         *)
(***************************************************************************)
\* The least distance_km over the rows of the caller's frame.
MinDistance ==
    LET d(i) == haversine_km(nf_point, <<stations_df.rows[i].latitude,
                                         stations_df.rows[i].longitude>>)
    IN  CHOOSE m \in {d(i) : i \in 1..Len(stations_df.rows)} :
            \A i \in 1..Len(stations_df.rows) : m <= d(i)

\* The positions of the caller's frame whose distance_km is the least.
Nearest == {i \in 1..Len(stations_df.rows) :
              haversine_km(nf_point, <<stations_df.rows[i].latitude,
                                       stations_df.rows[i].longitude>>) = MinDistance}

\* C6: Nearest-station minimality. The row a call returns is a station of
\* the frame it was given, its distance_km is the minimum of haversine_km
\* over the frame, and the call leaves the caller's frame as it was.
C6_NearestMinimal ==
    [][(nf_outcome = "pending" /\ nf_outcome' = "returned")
       => /\ stations_df' = stations_df
          /\ \E i \in 1..Len(stations_df.rows) :
                /\ nf_row'.label = stations_df.rows[i].label
                /\ nf_row'.name = stations_df.rows[i].name
                /\ nf_row'.latitude = stations_df.rows[i].latitude
                /\ nf_row'.longitude = stations_df.rows[i].longitude
                /\ nf_row'.phone = stations_df.rows[i].phone
                /\ nf_row'.distance_km =
                      haversine_km(nf_point, <<stations_df.rows[i].latitude,
                                               stations_df.rows[i].longitude>>)
          /\ \A i \in 1..Len(stations_df.rows) :
                nf_row'.distance_km <=
                    haversine_km(nf_point, <<stations_df.rows[i].latitude,
                                             stations_df.rows[i].longitude>>)]_vars

\* A call on three stations returned one that is not the first row, while a
\* farther station was in the frame.
C6_Witness ==
    /\ nf_outcome = "returned"
    /\ Len(stations_df.rows) = 3
    /\ nf_row.label > 0
    /\ nf_row.distance_km > 0
    /\ \E i \in 1..Len(stations_df.rows) :
          haversine_km(nf_point, <<stations_df.rows[i].latitude,
                                   stations_df.rows[i].longitude>>) > nf_row.distance_km

\* C7: Tie-break determinism. When stations share the least rounded
\* distance, the call returns the one of them that comes first in the frame.
C7_TieBreakFirst ==
    nf_outcome = "returned" =>
        \A i \in Nearest : nf_row.label <= stations_df.rows[i].label

\* C8: Empty station input. A call on a frame with no rows fails with
\* EmptyInputError and returns no station.
C8_EmptyInputError ==
    (Len(stations_df.rows) = 0 /\ nf_outcome # "pending")
        => nf_outcome = "EmptyInputError" /\ nf_row = NoRow

(***************************************************************************)
(* Properties of the wizard (checked under WizardSpec).                    *)
(***************************************************************************)
\* C10: The Fire workflow is reachable through the wizard: once the man-made
\* category of "Risk Assessment" is chosen, the subtype list shown is the
\* man-made one, which offers "Fire".
C10_ManMadeOffersFire ==
    wizard.disaster_type = ManMadeOption
        => /\ "Specify" \in RenderedInputs(wizard)
           /\ "Fire" \in WidgetOptions(wizard, "Specify")

\* What the wizard of the source does instead: in no state it reaches is the
\* Fire workflow shown.
FireWorkflowNeverShown == ~FireDetailsShown(wizard) /\ ~FireWorkflowActive(wizard)

====
